---- MODULE Spec2Model ----
(***************************************************************************)
(* Model of src/main.py: a FastAPI service with four CRUD resources        *)
(* (polls, comments, teams, players) stored in one SQLite database.        *)
(*                                                                         *)
(* Every route handler opens its own connection.  POST, GET and DELETE run *)
(* one SQL statement each and are one step.  PUT runs a SELECT, merges the *)
(* request body with the row it read, then runs an UPDATE and commits: no  *)
(* transaction spans the SELECT and the UPDATE, and FastAPI runs these     *)
(* handlers on a pool of worker threads, so other requests may run between *)
(* the two statements.                                                     *)
(*                                                                         *)
(* Spec is the service handling one request at a time.  RaceSpec is the    *)
(* service with PUT requests that overlap each other and every other       *)
(* request.                                                                *)
(***************************************************************************)
EXTENDS Integers, Sequences, FiniteSets, TLC

\* Rows inserted during one run of Spec, over the four tables together.
MaxCreates == 2

\* Rows inserted during one run of RaceSpec.
RaceCreates == 1

\* PUT requests of one run of RaceSpec that find their row: each runs on a worker
\* thread of its own and may overlap the others.
MaxPuts == 2

Puts == 1..MaxPuts

\* The ids requests ask for: every id a table can hold, so that in most states
\* some of them are absent.
Ids == 1..MaxCreates
RaceIds == 1..RaceCreates

\* The values of request bodies in Spec: text fields and integer fields.
StrVals == {"a", "b"}
IntVals == {0, 1}

\* The values of request bodies in RaceSpec: POST bodies hold the old values, PUT
\* bodies the new ones, so that a field tells which request wrote it last.
OldStr == {"a"}
OldInt == {1}
NewStr == {"b"}
NewInt == {0}

\* An optional field of an update model (default None): <<>> is None, <<v>> is
\* the value v.
Opt(S) == {<<>>} \cup {<<v>> : v \in S}

VARIABLES
    polls,      \* table polls:    id -> [question, likes]
    comments,   \* table comments: id -> [poll_id, content]
    teams,      \* table teams:    id -> [team_name, city, championships]
    players,    \* table players:  id -> [name, jersey_number, position, team_id]
    seq,        \* sqlite_sequence: table name -> largest rowid ever assigned
    put,        \* RaceSpec: per PUT request, where its handler is and its locals
    last        \* the request completed last, with its response

vars == <<polls, comments, teams, players, seq, put, last>>

tables == <<polls, comments, teams, players>>

TableNames == {"polls", "comments", "teams", "players"}

Waiting == [pc |-> "waiting"]

----------------------------------------------------------------------------
\* SQL statements

RECURSIVE SortedSeq(_)
\* The elements of a finite set of integers in increasing order.
SortedSeq(S) ==
    IF S = {} THEN <<>>
    ELSE LET m == CHOOSE x \in S : \A y \in S : x <= y
         IN  <<m>> \o SortedSeq(S \ {m})

MaxOf(S) == IF S = {} THEN 0 ELSE CHOOSE x \in S : \A y \in S : y <= x

\* The rowid of a table declared INTEGER PRIMARY KEY without AUTOINCREMENT: one
\* more than the largest rowid in the table, so the id of a deleted last row
\* is given out again.
NextRowidOfPlainKey(table, sq) == MaxOf(DOMAIN table) + 1

\* The rowid an INSERT gets in an INTEGER PRIMARY KEY AUTOINCREMENT table: one
\* more than the largest rowid the table ever held (kept in sqlite_sequence).
NextRowid(table, sq) == MaxOf(DOMAIN table \cup {sq}) + 1

\* INSERT OR REPLACE with the rowid of the last row: the new row takes the
\* place of the last one, when there is one.
InsertOrReplaceLast(table, sq, row) == (MaxOf(DOMAIN table \cup {1}) :> row) @@ table

\* INSERT INTO t (...) VALUES (...)
Insert(table, sq, row) == (NextRowid(table, sq) :> row) @@ table

\* SELECT * FROM t: the rows in rowid order, each with its id.
SelectAll(table) ==
    LET ids == SortedSeq(DOMAIN table)
    IN  [k \in 1..Len(ids) |-> [id |-> ids[k]] @@ table[ids[k]]]

\* An upsert: UPDATE ... WHERE id = ?, then an INSERT of the SET columns under
\* that id when the UPDATE matched no row.
UpsertWhereId(table, id, set) ==
    IF id \in DOMAIN table THEN [table EXCEPT ![id] = set @@ @]
    ELSE (id :> set) @@ table

\* UPDATE t SET c1 = ?, ... WHERE id = ?: the columns of `set` are overwritten in
\* the row with that id, if there is one; no row otherwise.
UpdateWhereId(table, id, set) ==
    IF id \in DOMAIN table
    THEN [table EXCEPT ![id] = set @@ @]
    ELSE table

\* A DELETE that is rolled back: no commit follows it.
DeleteRolledBack(table, id) == table

\* DELETE FROM t WHERE id = ?
DeleteWhereId(table, id) == [i \in DOMAIN table \ {id} |-> table[i]]

\* A rowcount that counts the statement, not the rows it matched.
DeleteRowcountOfStatement(table, id) == 1

\* cursor.rowcount after that DELETE
DeleteRowcount(table, id) == IF id \in DOMAIN table THEN 1 ELSE 0

----------------------------------------------------------------------------
\* Request handling

\* A merge that keeps the stored value whatever the body supplies.
CoalesceToStored(opt, old) == old

\* `x if x is not None else old`
Coalesce(opt, old) == IF opt # <<>> THEN opt[1] ELSE old

\* FastAPI's response_model: the returned value is serialised through the
\* model, which keeps the model's fields and drops every other key.
ResponseModel(fields, body) == [f \in fields |-> body[f]]

\* The pydantic models: the fields of each, and the request bodies of each.
PollCreateFields == {"question"}
PollUpdateFields == {"question"}
CommentCreateFields == {"poll_id", "content"}
CommentUpdateFields == {"content"}
TeamCreateFields == {"team_name", "city", "championships"}
TeamUpdateFields == {"team_name", "city", "championships"}
PlayerCreateFields == {"name", "jersey_number", "position", "team_id"}
PlayerUpdateFields == {"name", "jersey_number", "position", "team_id"}

\* The request bodies of each model whose str fields hold values of S and whose
\* int fields values of I.
PollCreate(S, I) == [question : S]
PollUpdate(S, I) == [question : Opt(S)]
CommentCreate(S, I) == [poll_id : I, content : S]
CommentUpdate(S, I) == [content : Opt(S)]
TeamCreate(S, I) == [team_name : S, city : S, championships : I]
TeamUpdate(S, I) == [team_name : Opt(S), city : Opt(S), championships : Opt(I)]
PlayerCreate(S, I) == [name : S, jersey_number : I, position : S, team_id : I]
PlayerUpdate(S, I) == [name : Opt(S), jersey_number : Opt(I),
                       position : Opt(S), team_id : Opt(I)]

\* raise HTTPException(status_code=404, detail=...)
NotFound(op, res, id, detail) ==
    [op |-> op, res |-> res, id |-> id, status |-> 404, body |-> [detail |-> detail]]

\* A handler's return: status 200 with the returned value as the body.
Ok(op, res, id, body) ==
    [op |-> op, res |-> res, id |-> id, status |-> 200, body |-> body]

\* Rows inserted so far.
Created == seq["polls"] + seq["comments"] + seq["teams"] + seq["players"]

----------------------------------------------------------------------------
\* Poll routes

create_poll(poll) ==
    /\ polls' = Insert(polls, seq["polls"], [question |-> poll.question, likes |-> 0])
    /\ seq' = [seq EXCEPT !["polls"] = NextRowid(polls, seq["polls"])]
    /\ last' = Ok("create", "polls", 0, ResponseModel(PollCreateFields, poll))
    /\ UNCHANGED <<comments, teams, players, put>>

\* What get_polls answers in the current state.
get_polls_response == Ok("list", "polls", 0, SelectAll(polls))

get_polls ==
    /\ last' = get_polls_response
    /\ UNCHANGED <<tables, seq, put>>

\* What get_poll answers in the current state.
get_poll_response(poll_id) ==
    IF poll_id \notin DOMAIN polls
    THEN NotFound("get", "polls", poll_id, "Poll not found")
    ELSE LET poll == polls[poll_id]
         IN  Ok("get", "polls", poll_id,
                [id |-> poll_id, question |-> poll.question, likes |-> poll.likes])

get_poll(poll_id) ==
    /\ last' = get_poll_response(poll_id)
    /\ UNCHANGED <<tables, seq, put>>

\* A merge that also counts the update as a like.
updated_poll_and_like(poll_update, existing_poll) ==
    [question |-> Coalesce(poll_update.question, existing_poll.question),
     likes |-> existing_poll.likes + 1]

\* The updated_* values of update_poll: each field of the request body, or the
\* value in the row read when the body leaves it None.
updated_poll(poll_update, existing_poll) ==
    [question |-> Coalesce(poll_update.question, existing_poll.question)]

\* The value update_poll returns, as the route's response model serialises it.
update_poll_response(poll_id, poll_update, existing_poll) ==
    LET updated == updated_poll(poll_update, existing_poll)
    IN  Ok("update", "polls", poll_id,
           ResponseModel(PollUpdateFields,
                         [id |-> poll_id, question |-> updated.question, likes |-> existing_poll.likes]))

\* The table after update_poll of an existing id, no other request running
\* between its SELECT and its UPDATE.
update_poll_rows(poll_id, poll_update) ==
    LET existing_poll == polls[poll_id]
    IN  UpdateWhereId(polls, poll_id, updated_poll(poll_update, existing_poll))

\* update_poll, no other request running between its SELECT and its UPDATE.
update_poll(poll_id, poll_update) ==
    /\ IF poll_id \notin DOMAIN polls
       THEN /\ last' = NotFound("update", "polls", poll_id, "Poll not found")
            /\ polls' = polls
       ELSE /\ polls' = update_poll_rows(poll_id, poll_update)
            /\ last' = update_poll_response(poll_id, poll_update, polls[poll_id])
    /\ UNCHANGED <<comments, teams, players, seq, put>>

\* update_poll up to the check of its SELECT's result, as request p.
update_poll_select(p, poll_id, poll_update) ==
    /\ put[p] = Waiting
    /\ IF poll_id \notin DOMAIN polls
       THEN /\ last' = NotFound("update", "polls", poll_id, "Poll not found")
            /\ put' = put
       ELSE /\ put' = [put EXCEPT ![p] = [pc |-> "selected", res |-> "polls",
                                          id |-> poll_id, upd |-> poll_update,
                                          existing |-> polls[poll_id]]]
            /\ last' = last
    /\ UNCHANGED <<tables, seq>>

\* update_poll from its merge to its return, as request p.
update_poll_write(p) ==
    /\ put[p].pc = "selected"
    /\ put[p].res = "polls"
    /\ polls' = UpdateWhereId(polls, put[p].id, updated_poll(put[p].upd, put[p].existing))
    /\ last' = update_poll_response(put[p].id, put[p].upd, put[p].existing)
    /\ put' = [put EXCEPT ![p].pc = "done"]
    /\ UNCHANGED <<comments, teams, players, seq>>

\* delete_poll with ON DELETE CASCADE enforced on comments.poll_id.
delete_poll_cascade(poll_id) ==
    /\ polls' = DeleteWhereId(polls, poll_id)
    /\ comments' = [i \in {j \in DOMAIN comments : comments[j].poll_id # poll_id}
                        |-> comments[i]]
    /\ last' = IF DeleteRowcount(polls, poll_id) = 0
               THEN NotFound("delete", "polls", poll_id, "Poll not found")
               ELSE Ok("delete", "polls", poll_id, [detail |-> "Poll deleted successfully"])
    /\ UNCHANGED <<teams, players, seq, put>>

delete_poll(poll_id) ==
    /\ polls' = DeleteWhereId(polls, poll_id)
    /\ last' = IF DeleteRowcount(polls, poll_id) = 0
               THEN NotFound("delete", "polls", poll_id, "Poll not found")
               ELSE Ok("delete", "polls", poll_id, [detail |-> "Poll deleted successfully"])
    /\ UNCHANGED <<comments, teams, players, seq, put>>

----------------------------------------------------------------------------
\* Comment routes

create_comment(comment) ==
    /\ comments' = Insert(comments, seq["comments"], [poll_id |-> comment.poll_id, content |-> comment.content])
    /\ seq' = [seq EXCEPT !["comments"] = NextRowid(comments, seq["comments"])]
    /\ last' = Ok("create", "comments", 0, ResponseModel(CommentCreateFields, comment))
    /\ UNCHANGED <<polls, teams, players, put>>

\* What get_comments answers in the current state.
get_comments_response == Ok("list", "comments", 0, SelectAll(comments))

get_comments ==
    /\ last' = get_comments_response
    /\ UNCHANGED <<tables, seq, put>>

\* What get_comment answers in the current state.
get_comment_response(comment_id) ==
    IF comment_id \notin DOMAIN comments
    THEN NotFound("get", "comments", comment_id, "Comment not found")
    ELSE LET comment == comments[comment_id]
         IN  Ok("get", "comments", comment_id,
                [id |-> comment_id, poll_id |-> comment.poll_id, content |-> comment.content])

get_comment(comment_id) ==
    /\ last' = get_comment_response(comment_id)
    /\ UNCHANGED <<tables, seq, put>>

\* The updated_* values of update_comment: each field of the request body, or the
\* value in the row read when the body leaves it None.
updated_comment(comment_update, existing_comment) ==
    [content |-> Coalesce(comment_update.content, existing_comment.content)]

\* The value update_comment returns, as the route's response model serialises it.
update_comment_response(comment_id, comment_update, existing_comment) ==
    LET updated == updated_comment(comment_update, existing_comment)
    IN  Ok("update", "comments", comment_id,
           ResponseModel(CommentUpdateFields,
                         [id |-> comment_id, poll_id |-> existing_comment.poll_id, content |-> updated.content]))

\* The table after update_comment of an existing id, no other request running
\* between its SELECT and its UPDATE.
update_comment_rows(comment_id, comment_update) ==
    LET existing_comment == comments[comment_id]
    IN  UpdateWhereId(comments, comment_id, updated_comment(comment_update, existing_comment))

\* update_comment, no other request running between its SELECT and its UPDATE.
update_comment(comment_id, comment_update) ==
    /\ IF comment_id \notin DOMAIN comments
       THEN /\ last' = NotFound("update", "comments", comment_id, "Comment not found")
            /\ comments' = comments
       ELSE /\ comments' = update_comment_rows(comment_id, comment_update)
            /\ last' = update_comment_response(comment_id, comment_update, comments[comment_id])
    /\ UNCHANGED <<polls, teams, players, seq, put>>

\* update_comment up to the check of its SELECT's result, as request p.
update_comment_select(p, comment_id, comment_update) ==
    /\ put[p] = Waiting
    /\ IF comment_id \notin DOMAIN comments
       THEN /\ last' = NotFound("update", "comments", comment_id, "Comment not found")
            /\ put' = put
       ELSE /\ put' = [put EXCEPT ![p] = [pc |-> "selected", res |-> "comments",
                                          id |-> comment_id, upd |-> comment_update,
                                          existing |-> comments[comment_id]]]
            /\ last' = last
    /\ UNCHANGED <<tables, seq>>

\* update_comment from its merge to its return, as request p.
update_comment_write(p) ==
    /\ put[p].pc = "selected"
    /\ put[p].res = "comments"
    /\ comments' = UpdateWhereId(comments, put[p].id, updated_comment(put[p].upd, put[p].existing))
    /\ last' = update_comment_response(put[p].id, put[p].upd, put[p].existing)
    /\ put' = [put EXCEPT ![p].pc = "done"]
    /\ UNCHANGED <<polls, teams, players, seq>>

delete_comment(comment_id) ==
    /\ comments' = DeleteWhereId(comments, comment_id)
    /\ last' = IF DeleteRowcount(comments, comment_id) = 0
               THEN NotFound("delete", "comments", comment_id, "Comment not found")
               ELSE Ok("delete", "comments", comment_id, [detail |-> "Comment deleted successfully"])
    /\ UNCHANGED <<polls, teams, players, seq, put>>

----------------------------------------------------------------------------
\* Team routes

create_team(team) ==
    /\ teams' = Insert(teams, seq["teams"], [team_name |-> team.team_name, city |-> team.city, championships |-> team.championships])
    /\ seq' = [seq EXCEPT !["teams"] = NextRowid(teams, seq["teams"])]
    /\ last' = Ok("create", "teams", 0, ResponseModel(TeamCreateFields, team))
    /\ UNCHANGED <<polls, comments, players, put>>

\* What get_teams answers in the current state.
get_teams_response == Ok("list", "teams", 0, SelectAll(teams))

get_teams ==
    /\ last' = get_teams_response
    /\ UNCHANGED <<tables, seq, put>>

\* What get_team answers in the current state.
get_team_response(team_id) ==
    IF team_id \notin DOMAIN teams
    THEN NotFound("get", "teams", team_id, "Team not found")
    ELSE LET team == teams[team_id]
         IN  Ok("get", "teams", team_id,
                [id |-> team_id, team_name |-> team.team_name, city |-> team.city, championships |-> team.championships])

get_team(team_id) ==
    /\ last' = get_team_response(team_id)
    /\ UNCHANGED <<tables, seq, put>>

\* The updated_* values of update_team: each field of the request body, or the
\* value in the row read when the body leaves it None.
updated_team(team_update, existing_team) ==
    [team_name |-> Coalesce(team_update.team_name, existing_team.team_name),
     city |-> Coalesce(team_update.city, existing_team.city),
     championships |-> Coalesce(team_update.championships, existing_team.championships)]

\* The value update_team returns, as the route's response model serialises it.
update_team_response(team_id, team_update, existing_team) ==
    LET updated == updated_team(team_update, existing_team)
    IN  Ok("update", "teams", team_id,
           ResponseModel(TeamUpdateFields,
                         [id |-> team_id, team_name |-> updated.team_name, city |-> updated.city, championships |-> updated.championships]))

\* The table after update_team of an existing id, no other request running
\* between its SELECT and its UPDATE.
update_team_rows(team_id, team_update) ==
    LET existing_team == teams[team_id]
    IN  UpdateWhereId(teams, team_id, updated_team(team_update, existing_team))

\* update_team, no other request running between its SELECT and its UPDATE.
update_team(team_id, team_update) ==
    /\ IF team_id \notin DOMAIN teams
       THEN /\ last' = NotFound("update", "teams", team_id, "Team not found")
            /\ teams' = teams
       ELSE /\ teams' = update_team_rows(team_id, team_update)
            /\ last' = update_team_response(team_id, team_update, teams[team_id])
    /\ UNCHANGED <<polls, comments, players, seq, put>>

\* update_team up to the check of its SELECT's result, as request p.
update_team_select(p, team_id, team_update) ==
    /\ put[p] = Waiting
    /\ IF team_id \notin DOMAIN teams
       THEN /\ last' = NotFound("update", "teams", team_id, "Team not found")
            /\ put' = put
       ELSE /\ put' = [put EXCEPT ![p] = [pc |-> "selected", res |-> "teams",
                                          id |-> team_id, upd |-> team_update,
                                          existing |-> teams[team_id]]]
            /\ last' = last
    /\ UNCHANGED <<tables, seq>>

\* update_team from its merge to its return, were the merge taken from the row
\* as it is at the UPDATE (SELECT and UPDATE in one transaction) and not from
\* the row the request read.
update_team_write_in_transaction(p) ==
    /\ put[p].pc = "selected"
    /\ put[p].res = "teams"
    /\ teams' = IF put[p].id \in DOMAIN teams
                THEN UpdateWhereId(teams, put[p].id, updated_team(put[p].upd, teams[put[p].id]))
                ELSE teams
    /\ last' = update_team_response(put[p].id, put[p].upd, put[p].existing)
    /\ put' = [put EXCEPT ![p].pc = "done"]
    /\ UNCHANGED <<polls, comments, players, seq>>

\* update_team from its merge to its return, as request p.
update_team_write(p) ==
    /\ put[p].pc = "selected"
    /\ put[p].res = "teams"
    /\ teams' = UpdateWhereId(teams, put[p].id, updated_team(put[p].upd, put[p].existing))
    /\ last' = update_team_response(put[p].id, put[p].upd, put[p].existing)
    /\ put' = [put EXCEPT ![p].pc = "done"]
    /\ UNCHANGED <<polls, comments, players, seq>>

delete_team(team_id) ==
    /\ teams' = DeleteWhereId(teams, team_id)
    /\ last' = IF DeleteRowcount(teams, team_id) = 0
               THEN NotFound("delete", "teams", team_id, "Team not found")
               ELSE Ok("delete", "teams", team_id, [detail |-> "Team deleted successfully"])
    /\ UNCHANGED <<polls, comments, players, seq, put>>

----------------------------------------------------------------------------
\* Player routes

create_player(player) ==
    /\ players' = Insert(players, seq["players"], [name |-> player.name, jersey_number |-> player.jersey_number, position |-> player.position, team_id |-> player.team_id])
    /\ seq' = [seq EXCEPT !["players"] = NextRowid(players, seq["players"])]
    /\ last' = Ok("create", "players", 0, ResponseModel(PlayerCreateFields, player))
    /\ UNCHANGED <<polls, comments, teams, put>>

\* What get_players answers in the current state.
get_players_response == Ok("list", "players", 0, SelectAll(players))

get_players ==
    /\ last' = get_players_response
    /\ UNCHANGED <<tables, seq, put>>

\* What get_player answers in the current state.
get_player_response(player_id) ==
    IF player_id \notin DOMAIN players
    THEN NotFound("get", "players", player_id, "Player not found")
    ELSE LET player == players[player_id]
         IN  Ok("get", "players", player_id,
                [id |-> player_id, name |-> player.name, jersey_number |-> player.jersey_number, position |-> player.position, team_id |-> player.team_id])

get_player(player_id) ==
    /\ last' = get_player_response(player_id)
    /\ UNCHANGED <<tables, seq, put>>

\* The updated_* values of update_player: each field of the request body, or the
\* value in the row read when the body leaves it None.
updated_player(player_update, existing_player) ==
    [name |-> Coalesce(player_update.name, existing_player.name),
     jersey_number |-> Coalesce(player_update.jersey_number, existing_player.jersey_number),
     position |-> Coalesce(player_update.position, existing_player.position),
     team_id |-> Coalesce(player_update.team_id, existing_player.team_id)]

\* The value update_player returns, as the route's response model serialises it.
update_player_response(player_id, player_update, existing_player) ==
    LET updated == updated_player(player_update, existing_player)
    IN  Ok("update", "players", player_id,
           ResponseModel(PlayerUpdateFields,
                         [id |-> player_id, name |-> updated.name, jersey_number |-> updated.jersey_number, position |-> updated.position, team_id |-> updated.team_id]))

\* The table after update_player of an existing id, no other request running
\* between its SELECT and its UPDATE.
update_player_rows(player_id, player_update) ==
    LET existing_player == players[player_id]
    IN  UpdateWhereId(players, player_id, updated_player(player_update, existing_player))

\* update_player, no other request running between its SELECT and its UPDATE.
update_player(player_id, player_update) ==
    /\ IF player_id \notin DOMAIN players
       THEN /\ last' = NotFound("update", "players", player_id, "Player not found")
            /\ players' = players
       ELSE /\ players' = update_player_rows(player_id, player_update)
            /\ last' = update_player_response(player_id, player_update, players[player_id])
    /\ UNCHANGED <<polls, comments, teams, seq, put>>

\* update_player up to the check of its SELECT's result, as request p.
update_player_select(p, player_id, player_update) ==
    /\ put[p] = Waiting
    /\ IF player_id \notin DOMAIN players
       THEN /\ last' = NotFound("update", "players", player_id, "Player not found")
            /\ put' = put
       ELSE /\ put' = [put EXCEPT ![p] = [pc |-> "selected", res |-> "players",
                                          id |-> player_id, upd |-> player_update,
                                          existing |-> players[player_id]]]
            /\ last' = last
    /\ UNCHANGED <<tables, seq>>

\* update_player from its merge to its return, as request p.
update_player_write(p) ==
    /\ put[p].pc = "selected"
    /\ put[p].res = "players"
    /\ players' = UpdateWhereId(players, put[p].id, updated_player(put[p].upd, put[p].existing))
    /\ last' = update_player_response(put[p].id, put[p].upd, put[p].existing)
    /\ put' = [put EXCEPT ![p].pc = "done"]
    /\ UNCHANGED <<polls, comments, teams, seq>>

delete_player(player_id) ==
    /\ players' = DeleteWhereId(players, player_id)
    /\ last' = IF DeleteRowcount(players, player_id) = 0
               THEN NotFound("delete", "players", player_id, "Player not found")
               ELSE Ok("delete", "players", player_id, [detail |-> "Player deleted successfully"])
    /\ UNCHANGED <<polls, comments, teams, seq, put>>

----------------------------------------------------------------------------

Init ==
    /\ polls = <<>>
    /\ comments = <<>>
    /\ teams = <<>>
    /\ players = <<>>
    /\ seq = [n \in TableNames |-> 0]
    /\ put = [p \in Puts |-> Waiting]
    /\ last = [op |-> "none", res |-> "none", id |-> 0, status |-> 0, body |-> <<>>]

\* One request at a time.
Next ==
    \/ Created < MaxCreates /\ \E poll \in PollCreate(StrVals, IntVals) : create_poll(poll)
    \/ get_polls
    \/ \E poll_id \in Ids : get_poll(poll_id)
    \/ \E poll_id \in Ids, poll_update \in PollUpdate(StrVals, IntVals) :
          update_poll(poll_id, poll_update)
    \/ \E poll_id \in Ids : delete_poll(poll_id)
    \/ Created < MaxCreates /\ \E comment \in CommentCreate(StrVals, IntVals) : create_comment(comment)
    \/ get_comments
    \/ \E comment_id \in Ids : get_comment(comment_id)
    \/ \E comment_id \in Ids, comment_update \in CommentUpdate(StrVals, IntVals) :
          update_comment(comment_id, comment_update)
    \/ \E comment_id \in Ids : delete_comment(comment_id)
    \/ Created < MaxCreates /\ \E team \in TeamCreate(StrVals, IntVals) : create_team(team)
    \/ get_teams
    \/ \E team_id \in Ids : get_team(team_id)
    \/ \E team_id \in Ids, team_update \in TeamUpdate(StrVals, IntVals) :
          update_team(team_id, team_update)
    \/ \E team_id \in Ids : delete_team(team_id)
    \/ Created < MaxCreates /\ \E player \in PlayerCreate(StrVals, IntVals) : create_player(player)
    \/ get_players
    \/ \E player_id \in Ids : get_player(player_id)
    \/ \E player_id \in Ids, player_update \in PlayerUpdate(StrVals, IntVals) :
          update_player(player_id, player_update)
    \/ \E player_id \in Ids : delete_player(player_id)

Spec == Init /\ [][Next]_vars

\* PUT requests overlapping each other and the other requests.
RaceNext ==
    \/ Created < RaceCreates /\ \E poll \in PollCreate(OldStr, OldInt) : create_poll(poll)
    \/ get_polls
    \/ \E poll_id \in RaceIds : get_poll(poll_id)
    \/ \E p \in Puts, poll_id \in RaceIds, poll_update \in PollUpdate(NewStr, NewInt) :
          update_poll_select(p, poll_id, poll_update)
    \/ \E p \in Puts : update_poll_write(p)
    \/ \E poll_id \in RaceIds : delete_poll(poll_id)
    \/ Created < RaceCreates /\ \E comment \in CommentCreate(OldStr, OldInt) : create_comment(comment)
    \/ get_comments
    \/ \E comment_id \in RaceIds : get_comment(comment_id)
    \/ \E p \in Puts, comment_id \in RaceIds, comment_update \in CommentUpdate(NewStr, NewInt) :
          update_comment_select(p, comment_id, comment_update)
    \/ \E p \in Puts : update_comment_write(p)
    \/ \E comment_id \in RaceIds : delete_comment(comment_id)
    \/ Created < RaceCreates /\ \E team \in TeamCreate(OldStr, OldInt) : create_team(team)
    \/ get_teams
    \/ \E team_id \in RaceIds : get_team(team_id)
    \/ \E p \in Puts, team_id \in RaceIds, team_update \in TeamUpdate(NewStr, NewInt) :
          update_team_select(p, team_id, team_update)
    \/ \E p \in Puts : update_team_write(p)
    \/ \E team_id \in RaceIds : delete_team(team_id)
    \/ Created < RaceCreates /\ \E player \in PlayerCreate(OldStr, OldInt) : create_player(player)
    \/ get_players
    \/ \E player_id \in RaceIds : get_player(player_id)
    \/ \E p \in Puts, player_id \in RaceIds, player_update \in PlayerUpdate(NewStr, NewInt) :
          update_player_select(p, player_id, player_update)
    \/ \E p \in Puts : update_player_write(p)
    \/ \E player_id \in RaceIds : delete_player(player_id)

RaceSpec == Init /\ [][RaceNext]_vars

----------------------------------------------------------------------------
\* Properties

\* The table of a resource.
TableOf(res) ==
    CASE res = "polls" -> polls
      [] res = "comments" -> comments
      [] res = "teams" -> teams
      [] res = "players" -> players

\* The table of a resource in the next state.
TableOfNext(res) ==
    CASE res = "polls" -> polls'
      [] res = "comments" -> comments'
      [] res = "teams" -> teams'
      [] res = "players" -> players'

\* What ListAll of a resource answers in the current state.
ListAll(res) ==
    CASE res = "polls" -> get_polls_response.body
      [] res = "comments" -> get_comments_response.body
      [] res = "teams" -> get_teams_response.body
      [] res = "players" -> get_players_response.body

\* What ListAll of a resource answers in the next state.
ListAllNext(res) ==
    CASE res = "polls" -> get_polls_response'.body
      [] res = "comments" -> get_comments_response'.body
      [] res = "teams" -> get_teams_response'.body
      [] res = "players" -> get_players_response'.body

\* What GetOne of a resource answers in the current state.
GetOne(res, id) ==
    CASE res = "polls" -> get_poll_response(id)
      [] res = "comments" -> get_comment_response(id)
      [] res = "teams" -> get_team_response(id)
      [] res = "players" -> get_player_response(id)

Range(s) == {s[k] : k \in DOMAIN s}

\* The fields of a record r named in F.
Restrict(r, F) == [f \in F |-> r[f]]

\* C1: a Create followed by ListAll answers the records ListAll answered before
\* the Create and exactly one more; the new record's id is held by no record
\* listed before, its fields are the request body's (a poll's likes is 0), and
\* every record listed before is listed unchanged.
C1_CreateThenListAll ==
    [][last'.op = "create" =>
         LET res == last'.res
             before == ListAll(res)
             after == ListAllNext(res)
             new == Range(after) \ Range(before)
         IN  /\ last'.status = 200
             /\ Len(after) = Len(before) + 1
             /\ Range(before) \subseteq Range(after)
             /\ Cardinality(Range(after)) = Len(after)
             /\ \A r \in new :
                   /\ r.id \notin {b.id : b \in Range(before)}
                   /\ Restrict(r, DOMAIN last'.body) = last'.body
                   /\ res = "polls" => r.likes = 0
    ]_vars

\* C1's case: a Create has answered, and ListAll now answers an older record and
\* the new one, which holds the request body.
C1_Witness ==
    /\ last.op = "create"
    /\ Len(ListAll(last.res)) = 2
    /\ Restrict(ListAll(last.res)[2], DOMAIN last.body) = last.body
    /\ Restrict(ListAll(last.res)[1], DOMAIN last.body) # last.body

\* C2: GetOne, UpdateOne and DeleteOne of an id that is not in the resource's
\* table answer 404 and leave the four tables as they are.
C2_AbsentIdNotFound ==
    [][(/\ last'.op \in {"get", "update", "delete"}
        /\ last'.id \notin DOMAIN TableOf(last'.res))
       => (last'.status = 404 /\ tables' = tables)
    ]_vars

\* C2's case: a DeleteOne of an absent id has answered 404 while the table
\* holds a row.
C2_Witness ==
    /\ last.op = "delete"
    /\ last.status = 404
    /\ last.id \notin DOMAIN TableOf(last.res)
    /\ TableOf(last.res) # <<>>

\* The request bodies of UpdateOne of a resource.
UpdateBodies(res) ==
    CASE res = "polls" -> PollUpdate(StrVals, IntVals)
      [] res = "comments" -> CommentUpdate(StrVals, IntVals)
      [] res = "teams" -> TeamUpdate(StrVals, IntVals)
      [] res = "players" -> PlayerUpdate(StrVals, IntVals)

\* The table of a resource after UpdateOne(id, partial) of an existing id, one
\* request at a time.
UpdateOneRows(res, id, partial) ==
    CASE res = "polls" -> update_poll_rows(id, partial)
      [] res = "comments" -> update_comment_rows(id, partial)
      [] res = "teams" -> update_team_rows(id, partial)
      [] res = "players" -> update_player_rows(id, partial)

\* The request body supplies field f with a value that is not None.
Supplies(partial, f) == f \in DOMAIN partial /\ partial[f] # <<>>

\* The fields of the update model of a resource.
UpdateFields(res) ==
    CASE res = "polls" -> PollUpdateFields
      [] res = "comments" -> CommentUpdateFields
      [] res = "teams" -> TeamUpdateFields
      [] res = "players" -> PlayerUpdateFields

\* The request body that supplies, of the fields F, the ones in which row `new`
\* differs from row `old`.
Changes(old, new, F) == [f \in F |-> IF new[f] # old[f] THEN <<new[f]>> ELSE <<>>]

\* What UpdateOne(id, partial) stores, for every existing id and every body.
C3_StoredRow ==
    \A res \in TableNames :
       \A id \in DOMAIN TableOf(res) :
          \A partial \in UpdateBodies(res) :
             LET after == UpdateOneRows(res, id, partial)
             IN  /\ DOMAIN after = DOMAIN TableOf(res)
                 /\ \A f \in DOMAIN TableOf(res)[id] :
                       after[id][f] = IF Supplies(partial, f) THEN partial[f][1]
                                      ELSE TableOf(res)[id][f]
                 /\ (\A f \in DOMAIN partial : partial[f] = <<>>)
                       => after[id] = TableOf(res)[id]
                 /\ \A i \in DOMAIN TableOf(res) \ {id} : after[i] = TableOf(res)[i]

\* C3: after UpdateOne(id, partial) of an existing id, one request at a time,
\* the stored row holds the value of every field the body supplies and the
\* value it held before in every other field (the id and a poll's likes too);
\* with a body that supplies nothing the row is as it was.  No other row of any
\* table changes.
C3_UpdateChangesOnlySupplied ==
    /\ []C3_StoredRow
    /\ [][(last'.op = "update" /\ last'.status = 200) =>
            /\ TableOfNext(last'.res) =
                  UpdateOneRows(last'.res, last'.id,
                                Changes(TableOf(last'.res)[last'.id],
                                        TableOfNext(last'.res)[last'.id],
                                        UpdateFields(last'.res)))
            /\ \A other \in TableNames \ {last'.res} :
                  TableOfNext(other) = TableOf(other)
       ]_vars

\* C3's case: an UpdateOne of a team has answered, the row holds values no Create
\* of this run supplied together, and the table's other row is there.
C3_Witness ==
    /\ last.op = "update"
    /\ last.status = 200
    /\ last.res = "teams"
    /\ DOMAIN teams = {1, 2}
    /\ teams[last.id] # teams[3 - last.id]

\* C4 as the specification states it: the success response of UpdateOne is the
\* full record, the id and every field of the entity with the stored values.
C4_UpdateReturnsFullRecord ==
    (last.op = "update" /\ last.status = 200) =>
        last.body = [id |-> last.id] @@ TableOf(last.res)[last.id]

\* C5: a GetOne(id) that follows a DeleteOne(id) of the same resource answers
\* 404, whether the DeleteOne answered success or 404.
C5_DeleteThenGetNotFound ==
    [][(/\ last.op = "delete"
        /\ last'.op = "get"
        /\ last'.res = last.res
        /\ last'.id = last.id)
       => last'.status = 404
    ]_vars

\* C5's case: GetOne has answered 404 for an id whose row was inserted and
\* deleted.
C5_Witness ==
    /\ last.op = "get"
    /\ last.status = 404
    /\ last.id <= seq[last.res]
    /\ last.id \notin DOMAIN TableOf(last.res)

\* The table whose rows refer to the rows of a resource, and the referring column.
Referring(res) == IF res = "polls" THEN comments ELSE players
RefColumn(res) == IF res = "polls" THEN "poll_id" ELSE "team_id"

\* C7: no reference is checked.  Create of a comment (player) answers success
\* and inserts one row holding the body's poll_id (team_id), whether or not a
\* poll (team) has that id; DeleteOne of an existing poll (team) answers success
\* and leaves every row of comments (players) as it is.
C7_NoReferentialIntegrity ==
    [][/\ (last'.op = "create" /\ last'.res \in {"comments", "players"}) =>
            /\ last'.status = 200
            /\ Len(ListAllNext(last'.res)) = Len(ListAll(last'.res)) + 1
            /\ \A r \in Range(ListAllNext(last'.res)) \ Range(ListAll(last'.res)) :
                  Restrict(r, DOMAIN last'.body) = last'.body
       /\ (/\ last'.op = "delete"
           /\ last'.res \in {"polls", "teams"}
           /\ last'.id \in DOMAIN TableOf(last'.res)) =>
            /\ last'.status = 200
            /\ last'.id \notin DOMAIN TableOfNext(last'.res)
            /\ comments' = comments
            /\ players' = players
    ]_vars

\* C7's case: a DeleteOne of a poll or team has answered success and a row that
\* refers to the deleted id is still there.
C7_Witness ==
    /\ last.op = "delete"
    /\ last.status = 200
    /\ last.res \in {"polls", "teams"}
    /\ \E i \in DOMAIN Referring(last.res) :
          Referring(last.res)[i][RefColumn(last.res)] = last.id

\* C9: the id a Create assigns is larger than every id the table ever held, a
\* deleted id never comes back into the table, and GetOne of a deleted id
\* answers 404.
C9_IdsNeverReused ==
    [][/\ last'.op = "create" =>
            \A i \in DOMAIN TableOfNext(last'.res) \ DOMAIN TableOf(last'.res) :
                i > seq[last'.res]
       /\ \A res \in TableNames :
            \A i \in 1..seq[res] :
                i \notin DOMAIN TableOf(res) =>
                    /\ i \notin DOMAIN TableOfNext(res)
                    /\ GetOne(res, i).status = 404
    ]_vars

\* C9's case: a Create has answered in a table whose first row was deleted, and
\* the new row has the next id.
C9_Witness ==
    /\ last.op = "create"
    /\ seq[last.res] = 2
    /\ DOMAIN TableOf(last.res) = {2}

\* The fields a request body supplies.
Supplied(partial) == {f \in DOMAIN partial : partial[f] # <<>>}

\* PUT requests p and q have both answered success on the same existing row of
\* teams or players, p supplied only field x and q only another field y, each
\* with a new value, and the row holds in x the value p read, not the one p sent.
LostUpdate(p, q, x, y) ==
    /\ put[p].pc = "done"
    /\ put[q].pc = "done"
    /\ put[p].res \in {"teams", "players"}
    /\ put[q].res = put[p].res
    /\ put[q].id = put[p].id
    /\ put[p].id \in DOMAIN TableOf(put[p].res)
    /\ Supplied(put[p].upd) = {x}
    /\ Supplied(put[q].upd) = {y}
    /\ put[p].upd[x][1] # put[p].existing[x]
    /\ put[q].upd[y][1] # put[q].existing[y]
    /\ TableOf(put[p].res)[put[p].id][x] = put[p].existing[x]
    /\ TableOf(put[p].res)[put[p].id][y] = put[q].upd[y][1]

\* C6: UpdateOne is a read-merge-write that is not atomic.  The UPDATE of a PUT
\* request rewrites every field of its model: the fields the body supplies with
\* the body's values, and every other field with the value the request's SELECT
\* read, whatever the row holds by then.  So a change another request committed
\* between the SELECT and the UPDATE is lost (C6_Witness).
C6_WriteRestoresStaleRead ==
    [][\A p \in Puts :
         (/\ put[p].pc = "selected"
          /\ put'[p].pc = "done"
          /\ put[p].id \in DOMAIN TableOf(put[p].res)) =>
            /\ last'.op = "update"
            /\ last'.status = 200
            /\ \A f \in DOMAIN put[p].upd :
                  TableOfNext(put[p].res)[put[p].id][f] =
                     IF Supplies(put[p].upd, f) THEN put[p].upd[f][1]
                     ELSE put[p].existing[f]
    ]_vars

\* C6's case: two PUT requests on one row, one supplying only x and the other
\* only y, have both answered success, and the row holds the old value of x.
C6_Witness ==
    \E p, q \in Puts :
       \E x, y \in TeamUpdateFields \cup PlayerUpdateFields :
          x # y /\ LostUpdate(p, q, x, y)

\* C8: every row of polls has likes = 0, in every state and under every
\* interleaving of the requests.
C8_LikesAlwaysZero ==
    \A id \in DOMAIN polls : polls[id].likes = 0

\* C8's case: a PUT request has rewritten a poll that is still stored.
C8_Witness ==
    \E p \in Puts :
       /\ put[p].pc = "done"
       /\ put[p].res = "polls"
       /\ put[p].id \in DOMAIN polls
       /\ polls[put[p].id].question # put[p].existing.question

\* The step belongs to a PUT request: its SELECT, its UPDATE, or its 404.
PutStep == put' # put \/ last'.op = "update"

\* The step is a whole POST or DELETE request.
CreateOrDeleteStep == put' = put /\ last'.op \in {"create", "delete"}

\* C10: UpdateOne never creates or restores a row: no step of a PUT request
\* changes the set of ids of any table.  A PUT request whose row was deleted
\* after its SELECT still answers success, with the record merged from the row
\* it read, and the row stays absent.
C10_UpdateNeverCreatesRow ==
    [][/\ PutStep => \A res \in TableNames :
                        DOMAIN TableOfNext(res) = DOMAIN TableOf(res)
       /\ \A res \in TableNames :
            DOMAIN TableOfNext(res) # DOMAIN TableOf(res) => CreateOrDeleteStep
       /\ \A p \in Puts :
            (/\ put[p].pc = "selected"
             /\ put'[p].pc = "done"
             /\ put[p].id \notin DOMAIN TableOf(put[p].res)) =>
               /\ put[p].id \notin DOMAIN TableOfNext(put[p].res)
               /\ last'.op = "update"
               /\ last'.id = put[p].id
               /\ last'.status = 200
               /\ \A f \in DOMAIN last'.body :
                     last'.body[f] = IF Supplies(put[p].upd, f) THEN put[p].upd[f][1]
                                     ELSE put[p].existing[f]
    ]_vars

\* C10's case: a PUT request has answered success for an id whose row was
\* deleted after the request read it.
C10_Witness ==
    /\ last.op = "update"
    /\ last.status = 200
    /\ last.id \notin DOMAIN TableOf(last.res)
    /\ \E p \in Puts : /\ put[p].pc = "done"
                       /\ put[p].res = last.res
                       /\ put[p].id = last.id

====
